---- MODULE Spec2Model ----
(***************************************************************************)
(* Model of scripts/dvp_swar.py: the Defense-vs-Position aggregation.      *)
(* Text is modelled as sequences of one-character strings so that the     *)
(* case conversions, the name normalisation and the decimal formatting are *)
(* computed, not assumed.  A JSON cell is a record with a kind ("int",     *)
(* "str", "none"); a Python exception is the kind "raise".                 *)
(***************************************************************************)
EXTENDS Integers, Sequences, FiniteSets, TLC

(* ------------------------------------------------------------------ *)
(* Bounds of the model.                                                *)
(* ------------------------------------------------------------------ *)
\* Longest game log the game-log provider returns.
MaxLog == 2

(* ------------------------------------------------------------------ *)
(* Python text primitives.                                             *)
(* ------------------------------------------------------------------ *)
UpperLetters ==
  <<"A","B","C","D","E","F","G","H","I","J","K","L","M",
    "N","O","P","Q","R","S","T","U","V","W","X","Y","Z">>

LowerLetters ==
  <<"a","b","c","d","e","f","g","h","i","j","k","l","m",
    "n","o","p","q","r","s","t","u","v","w","x","y","z">>

DigitChars == <<"0","1","2","3","4","5","6","7","8","9">>

InSeq(c, s) == \E i \in 1..Len(s) : s[i] = c

PosIn(c, s) == CHOOSE i \in 1..Len(s) : s[i] = c

\* str.lower(), one character
LowerChar(c) == IF InSeq(c, UpperLetters) THEN LowerLetters[PosIn(c, UpperLetters)] ELSE c

\* str.upper(), one character
UpperChar(c) == IF InSeq(c, LowerLetters) THEN UpperLetters[PosIn(c, LowerLetters)] ELSE c

\* str.lower()
Lower(s) == [i \in 1..Len(s) |-> LowerChar(s[i])]

\* str.upper()
Upper(s) == [i \in 1..Len(s) |-> UpperChar(s[i])]

\* the regular expression class \s
IsSpace(c) == c \in {" ", "\t", "\n"}

\* re.sub(r"[^a-z\s]", ' ', s)
OnlyLettersAndSpace(s) ==
  [i \in 1..Len(s) |-> IF InSeq(s[i], LowerLetters) \/ IsSpace(s[i]) THEN s[i] ELSE " "]

\* The maximal runs of non-space characters of s, in order.
RECURSIVE Words(_, _, _)
Words(s, i, cur) ==
  IF i > Len(s)
    THEN (IF cur = <<>> THEN <<>> ELSE <<cur>>)
    ELSE IF IsSpace(s[i])
      THEN (IF cur = <<>> THEN <<>> ELSE <<cur>>) \o Words(s, i + 1, <<>>)
      ELSE Words(s, i + 1, Append(cur, s[i]))

\* the alternation (jr|sr|ii|iii|iv) between two word boundaries
SuffixTokens == { <<"j","r">>, <<"s","r">>, <<"i","i">>, <<"i","i","i">>, <<"i","v">> }

RECURSIVE DropSuffixes(_)
DropSuffixes(ws) ==
  IF ws = <<>> THEN <<>>
  ELSE IF Head(ws) \in SuffixTokens THEN DropSuffixes(Tail(ws))
  ELSE <<Head(ws)>> \o DropSuffixes(Tail(ws))

RECURSIVE JoinWords(_)
JoinWords(ws) ==
  IF ws = <<>> THEN <<>>
  ELSE IF Len(ws) = 1 THEN Head(ws)
  ELSE Head(ws) \o <<" ">> \o JoinWords(Tail(ws))

\* norm_name: lower-case, blank out everything but a-z and whitespace, blank
\* out the standalone suffix words, collapse whitespace runs and strip.  After
\* the first substitution a word is a maximal run of letters, so removing the
\* suffix words and re-joining the remaining words with one space is what the
\* last two substitutions and the strip compute.
norm_name(s) == JoinWords(DropSuffixes(Words(OnlyLettersAndSpace(Lower(s)), 1, <<>>)))

\* str(n) for a natural number n
RECURSIVE Digits(_)
Digits(n) == IF n < 10 THEN <<DigitChars[n + 1]>> ELSE Digits(n \div 10) \o <<DigitChars[(n % 10) + 1]>>

\* str.zfill(2)
ZFill2(s) == IF Len(s) >= 2 THEN s ELSE IF Len(s) = 1 THEN <<"0">> \o s ELSE <<"0","0">>

season_label_from_year(y) == Digits(y) \o <<"-">> \o ZFill2(Digits((y + 1) % 100))

\* s.find(sub) >= 0
Contains(s, sub) ==
  \E i \in 0..(Len(s) - Len(sub)) : \A j \in 1..Len(sub) : s[i + j] = sub[j]

(* ------------------------------------------------------------------ *)
(* JSON cells and the Python conversions applied to them.              *)
(* ------------------------------------------------------------------ *)
I(n) == [k |-> "int", n |-> n, s |-> <<>>]
T(s) == [k |-> "str", n |-> 0, s |-> s]
None == [k |-> "none", n |-> 0, s |-> <<>>]
Raise == [k |-> "raise", n |-> 0, s |-> <<>>]

IsRaise(c) == c.k = "raise"

\* bool(c)
Truthy(c) == (c.k = "int" /\ c.n # 0) \/ (c.k = "str" /\ c.s # <<>>)

\* c or d
PyOr(c, d) == IF IsRaise(c) THEN Raise ELSE IF Truthy(c) THEN c ELSE d

IsDigits(s) == s # <<>> /\ \A i \in 1..Len(s) : InSeq(s[i], DigitChars)

RECURSIVE ParseNat(_)
ParseNat(s) ==
  IF s = <<>> THEN 0 ELSE 10 * ParseNat(SubSeq(s, 1, Len(s) - 1)) + (PosIn(s[Len(s)], DigitChars) - 1)

\* int(c) and float(c): the number of a numeric cell or of a decimal string;
\* TypeError for None, ValueError for any other text
PyNum(c) ==
  IF c.k = "int" THEN c
  ELSE IF c.k = "str" /\ IsDigits(c.s) THEN I(ParseNat(c.s))
  ELSE Raise

\* str(c)
PyStr(c) ==
  IF IsRaise(c) THEN Raise
  ELSE IF c.k = "int" THEN T(Digits(c.n))
  ELSE IF c.k = "none" THEN T(<<"N","o","n","e">>)
  ELSE c

\* r[i] for a Python index i (0-based, negative counts from the end);
\* IndexError outside the list
PyIndex(r, i) ==
  IF i >= 0
    THEN (IF i < Len(r) THEN r[i + 1] ELSE Raise)
    ELSE (IF -i <= Len(r) THEN r[Len(r) + i + 1] ELSE Raise)

\* idx: position (0-based) of the first of the names found, compared in lower
\* case, in the header list; -1 when none is found
RECURSIVE idx(_, _)
idx(headers, names) ==
  LET lower == [i \in 1..Len(headers) |-> Lower(PyStr(PyOr(headers[i], T(<<>>))).s)]
  IN  IF names = <<>> THEN -1
      ELSE IF InSeq(Lower(Head(names)), lower)
        THEN (CHOOSE i \in 1..Len(lower) :
                 /\ lower[i] = Lower(Head(names))
                 /\ \A j \in 1..(i - 1) : lower[j] # Lower(Head(names))) - 1
        ELSE idx(headers, Tail(names))

(* ------------------------------------------------------------------ *)
(* The static team table and the bucket labels.                        *)
(* ------------------------------------------------------------------ *)
ABBR_TO_TEAM_ID ==
  <<<<<<"A","T","L">>, 1610612737>>,
    <<<<"B","O","S">>, 1610612738>>,
    <<<<"B","K","N">>, 1610612751>>,
    <<<<"C","H","A">>, 1610612766>>,
    <<<<"C","H","I">>, 1610612741>>,
    <<<<"C","L","E">>, 1610612739>>,
    <<<<"D","A","L">>, 1610612742>>,
    <<<<"D","E","N">>, 1610612743>>,
    <<<<"D","E","T">>, 1610612765>>,
    <<<<"G","S","W">>, 1610612744>>,
    <<<<"H","O","U">>, 1610612745>>,
    <<<<"I","N","D">>, 1610612754>>,
    <<<<"L","A","C">>, 1610612746>>,
    <<<<"L","A","L">>, 1610612747>>,
    <<<<"M","E","M">>, 1610612763>>,
    <<<<"M","I","A">>, 1610612748>>,
    <<<<"M","I","L">>, 1610612749>>,
    <<<<"M","I","N">>, 1610612750>>,
    <<<<"N","O","P">>, 1610612740>>,
    <<<<"N","Y","K">>, 1610612752>>,
    <<<<"O","K","C">>, 1610612760>>,
    <<<<"O","R","L">>, 1610612753>>,
    <<<<"P","H","I">>, 1610612755>>,
    <<<<"P","H","X">>, 1610612756>>,
    <<<<"P","O","R">>, 1610612757>>,
    <<<<"S","A","C">>, 1610612758>>,
    <<<<"S","A","S">>, 1610612759>>,
    <<<<"T","O","R">>, 1610612761>>,
    <<<<"U","T","A">>, 1610612762>>,
    <<<<"W","A","S">>, 1610612764>>>>

\* ABBR_TO_TEAM_ID.get(abbr); 0 stands for None (no id of the table is 0)
TeamIdOfAbbr(abbr) ==
  IF \E i \in 1..Len(ABBR_TO_TEAM_ID) : ABBR_TO_TEAM_ID[i][1] = abbr
    THEN ABBR_TO_TEAM_ID[CHOOSE i \in 1..Len(ABBR_TO_TEAM_ID) : ABBR_TO_TEAM_ID[i][1] = abbr][2]
    ELSE 0

\* TEAM_ID_TO_ABBR.get(id): the inverted table; the empty text stands for None
TEAM_ID_TO_ABBR(id) ==
  IF \E i \in 1..Len(ABBR_TO_TEAM_ID) : ABBR_TO_TEAM_ID[i][2] = id
    THEN ABBR_TO_TEAM_ID[CHOOSE i \in 1..Len(ABBR_TO_TEAM_ID) : ABBR_TO_TEAM_ID[i][2] = id][1]
    ELSE <<>>

BUCKETS_KEYS == <<"PG", "SG", "SF", "PF", "C">>

Buckets == {BUCKETS_KEYS[i] : i \in 1..Len(BUCKETS_KEYS)}

\* {k: 0.0 for k in BUCKETS_KEYS}
ZeroBuckets == [k \in Buckets |-> 0]

(* ------------------------------------------------------------------ *)
(* fetch_depth_chart_buckets.                                          *)
(* ------------------------------------------------------------------ *)
EmptyMapping == <<>>

\* mapping[key] = k
MapPut(m, key, k) == (key :> k) @@ m

\* depth_map.get(key); "" stands for None
MapGet(m, key) == IF key \in DOMAIN m THEN m[key] ELSE ""

\* name = p if isinstance(p, str) else (p.get('name') if isinstance(p, dict) else None)
EntryName(p) == IF p.t = "str" THEN p.name ELSE IF p.t = "dict" THEN p.name ELSE None

\* The inner loop over one bucket's entries.  A truthy name that is not text
\* has no lower(): norm_name raises, and acc.ok records it.
RECURSIVE PutEntries(_, _, _)
PutEntries(acc, arr, k) ==
  IF arr = <<>> \/ ~acc.ok THEN acc
  ELSE LET name == EntryName(Head(arr))
       IN  IF ~Truthy(name) THEN PutEntries(acc, Tail(arr), k)
           ELSE IF name.k # "str" THEN [ok |-> FALSE, m |-> acc.m]
           ELSE PutEntries([ok |-> TRUE, m |-> MapPut(acc.m, norm_name(name.s), k)], Tail(arr), k)

\* The outer loop over BUCKETS_KEYS, from position i on.
RECURSIVE PutBuckets(_, _, _)
PutBuckets(acc, dc, i) ==
  IF i > Len(BUCKETS_KEYS) \/ ~acc.ok THEN acc
  ELSE PutBuckets(PutEntries(acc, dc[BUCKETS_KEYS[i]], BUCKETS_KEYS[i]), dc, i + 1)

\* resp is what requests.get and r.json() produce for the depth-chart URL:
\*   "error"      the request raises (timeout, connection error)
\*   "status"     a response whose status code is not 200
\*   "badjson"    r.json() raises
\*   "notobject"  the body is JSON but not an object: js.get raises
\*   "nochart"    an object whose depthChart is missing or null
\*   "ok"         an object whose depthChart maps each bucket to resp.dc[bucket]
\* Every exception is caught and gives the empty mapping.
fetch_depth_chart_buckets(resp) ==
  IF resp.kind \in {"error", "status", "badjson", "notobject", "nochart"} THEN EmptyMapping
  ELSE LET built == PutBuckets([ok |-> TRUE, m |-> EmptyMapping], resp.dc, 1)
       IN  IF built.ok THEN built.m ELSE EmptyMapping

(* ------------------------------------------------------------------ *)
(* Bucket assignment of one opponent row.                              *)
(* ------------------------------------------------------------------ *)
\* tov = 0.0: the pipeline supplies no turnover column
tov == 0

\* HeuristicBucket with the guard threshold off by one (ast > 5 for ast >= 5)
HeuristicBucketStrict(start_pos, ast, reb, blk) ==
  IF start_pos = <<"G">> THEN (IF ast > 5 \/ tov >= 4 THEN "PG" ELSE "SG")
  ELSE IF start_pos = <<"F">> THEN (IF reb >= 8 \/ blk >= 2 THEN "PF" ELSE "SF")
  ELSE IF start_pos = <<"C">> THEN "C"
  ELSE (IF reb >= 7 THEN "PF" ELSE "C")

\* the heuristic single-bucket fallback on the upper-cased starting position
HeuristicBucket(start_pos, ast, reb, blk) ==
  IF start_pos = <<"G">> THEN (IF ast >= 5 \/ tov >= 4 THEN "PG" ELSE "SG")
  ELSE IF start_pos = <<"F">> THEN (IF reb >= 8 \/ blk >= 2 THEN "PF" ELSE "SF")
  ELSE IF start_pos = <<"C">> THEN "C"
  ELSE (IF reb >= 7 THEN "PF" ELSE "C")

\* start_pos = str(r[iStartPos] or '').upper()
StartPos(cell) == Upper(PyStr(PyOr(cell, T(<<>>))).s)

\* player_name = str(r[iPlayer] or '')
PlayerName(cell) == PyStr(PyOr(cell, T(<<>>))).s

\* key = depth_map.get(norm_name(player_name)); key if it is a bucket, else the heuristic
AssignBucket(player_name, start_pos, ast, reb, blk, depth_map) ==
  LET key == MapGet(depth_map, norm_name(player_name))
  IN  IF key \in Buckets THEN key ELSE HeuristicBucket(start_pos, ast, reb, blk)

(* ------------------------------------------------------------------ *)
(* One iteration of the game loop of compute_for_season.               *)
(* ------------------------------------------------------------------ *)
HdrTeamId    == <<"T","E","A","M","_","I","D">>
HdrTeamAbbr  == <<"T","E","A","M","_","A","B","B","R","E","V","I","A","T","I","O","N">>
HdrPlayer    == <<"P","L","A","Y","E","R","_","N","A","M","E">>
HdrStartPos  == <<"S","T","A","R","T","_","P","O","S","I","T","I","O","N">>
HdrPTS       == <<"P","T","S">>
HdrREB       == <<"R","E","B">>
HdrAST       == <<"A","S","T">>
HdrFG3M      == <<"F","G","3","M">>
HdrSTL       == <<"S","T","L">>
HdrBLK       == <<"B","L","K">>

\* The ten column indices resolved from the header list.
ColumnIndices(headers) ==
  [ iTeamId   |-> idx(headers, <<HdrTeamId>>),
    iTeamAbbr |-> idx(headers, <<HdrTeamAbbr>>),
    iPlayer   |-> idx(headers, <<HdrPlayer>>),
    iStartPos |-> idx(headers, <<HdrStartPos>>),
    iPTS      |-> idx(headers, <<HdrPTS>>),
    iREB      |-> idx(headers, <<HdrREB>>),
    iAST      |-> idx(headers, <<HdrAST>>),
    iFG3M     |-> idx(headers, <<HdrFG3M>>),
    iSTL      |-> idx(headers, <<HdrSTL>>),
    iBLK      |-> idx(headers, <<HdrBLK>>) ]

\* the choices of --metric
Metrics == {"pts", "reb", "ast", "fg3m", "stl", "blk"}

\* the column the if/elif chain on args.metric reads; PTS for anything else
MetricIndex(metric, ix) ==
  CASE metric = "pts"  -> ix.iPTS
    [] metric = "reb"  -> ix.iREB
    [] metric = "ast"  -> ix.iAST
    [] metric = "fg3m" -> ix.iFG3M
    [] metric = "stl"  -> ix.iSTL
    [] metric = "blk"  -> ix.iBLK
    [] OTHER           -> ix.iPTS

\* float(r[i] or 0)
StatCell(r, i) == PyNum(PyOr(PyIndex(r, i), I(0)))

\* int(r[iTeamId])
TeamIdCell(r, ix) == PyNum(PyIndex(r, ix.iTeamId))

\* pset: the first result set whose name contains "player", else the first
\* result set, else None (the empty sequence here)
PlayerSet(rs) ==
  LET isPlayer(i) == Contains(Lower(PyStr(PyOr(rs[i].name, T(<<>>))).s), <<"p","l","a","y","e","r">>)
  IN  IF \E i \in 1..Len(rs) : isPlayer(i)
        THEN <<rs[CHOOSE i \in 1..Len(rs) : isPlayer(i) /\ \A j \in 1..(i - 1) : ~isPlayer(j)]>>
        ELSE IF rs # <<>> THEN <<rs[1]>> ELSE <<>>

\* opp_row = next((r for r in rows if int(r[iTeamId]) != team_id), None),
\* scanning from row i: "raise" when a team-id cell cannot be read before a
\* differing one is found, "none" when the rows run out
RECURSIVE FindOppRow(_, _, _, _)
FindOppRow(rows, i, ix, tid) ==
  IF i > Len(rows) THEN [kind |-> "none", row |-> <<>>]
  ELSE LET c == TeamIdCell(rows[i], ix)
       IN  IF IsRaise(c) THEN [kind |-> "raise", row |-> <<>>]
           ELSE IF c.n # tid THEN [kind |-> "found", row |-> rows[i]]
           ELSE FindOppRow(rows, i + 1, ix, tid)

\* game_buckets[bucket] += val
AddTo(gb, bucket, val) == [gb EXCEPT ![bucket] = @ + val]

\* The loop over the rows, from row i on, accumulating into acc.gb; acc.ok
\* turns FALSE where a cell read raises.
RECURSIVE RowLoop(_, _, _, _, _, _, _)
RowLoop(acc, rows, i, ix, opp_id, metric, depth_map) ==
  IF i > Len(rows) \/ ~acc.ok THEN acc
  ELSE
    LET r == rows[i]
        t == TeamIdCell(r, ix)
        nameCell == PyIndex(r, ix.iPlayer)
        posCell == PyIndex(r, ix.iStartPos)
        val == StatCell(r, MetricIndex(metric, ix))
        ast == StatCell(r, ix.iAST)
        reb == StatCell(r, ix.iREB)
        blk == StatCell(r, ix.iBLK)
        key == MapGet(depth_map, norm_name(PlayerName(nameCell)))
        fail == [ok |-> FALSE, gb |-> acc.gb]
        next(a) == RowLoop(a, rows, i + 1, ix, opp_id, metric, depth_map)
    IN  IF IsRaise(t) THEN fail
        ELSE IF t.n # opp_id THEN next(acc)
        ELSE IF IsRaise(nameCell) \/ IsRaise(posCell) \/ IsRaise(val) THEN fail
        ELSE IF val.n = 0 THEN next(acc)
        ELSE IF key \in Buckets THEN next([ok |-> TRUE, gb |-> AddTo(acc.gb, key, val.n)])
        ELSE IF IsRaise(ast) \/ IsRaise(reb) \/ IsRaise(blk) THEN fail
        ELSE next([ok |-> TRUE,
                   gb |-> AddTo(acc.gb,
                                AssignBucket(PlayerName(nameCell), StartPos(posCell),
                                             ast.n, reb.n, blk.n, depth_map),
                                val.n)])

\* What one iteration leaves behind.  kind is "skip" (a continue), "raise" (an
\* exception leaves the loop) or "add" (the end of the body is reached).
GameResult(kind, headers, rows, found, opp_id, opp_abbr, depth_map, gb) ==
  [kind |-> kind, headers |-> headers, rows |-> rows, identified |-> found,
   opp_id |-> opp_id, opp_abbr |-> opp_abbr, depth_map |-> depth_map, game_buckets |-> gb]

\* The body of the game loop for one game id.  bs is what nba_fetch produces:
\*   "error"      nba_fetch raises (timeout, connection error, HTTP status, bad JSON)
\*   "notobject"  the body is JSON but not an object: bs.get raises
\*   "ok"         an object whose resultSets is bs.resultSets (empty when missing)
\* resp is the depth-chart response for the opponent.
ProcessGame(bs, resp, tid, metric) ==
  LET pset == PlayerSet(bs.resultSets)
      headers == IF pset # <<>> THEN pset[1].headers ELSE <<>>
      rows == IF pset # <<>> THEN pset[1].rowSet ELSE <<>>
      ix == ColumnIndices(headers)
      opp == FindOppRow(rows, 1, ix, tid)
      opp_id == TeamIdCell(opp.row, ix).n
      abbrCell == PyStr(PyOr(PyIndex(opp.row, ix.iTeamAbbr), T(<<>>)))
      opp_abbr == IF TEAM_ID_TO_ABBR(opp_id) # <<>> THEN T(TEAM_ID_TO_ABBR(opp_id)) ELSE abbrCell
      depth_map == fetch_depth_chart_buckets(resp)
      loop == RowLoop([ok |-> TRUE, gb |-> ZeroBuckets], rows, 1, ix, opp_id, metric, depth_map)
      early(kind) == GameResult(kind, headers, rows, FALSE, 0, <<>>, EmptyMapping, ZeroBuckets)
  IN  IF bs.kind = "error" THEN GameResult("skip", <<>>, <<>>, FALSE, 0, <<>>, EmptyMapping, ZeroBuckets)
      ELSE IF bs.kind = "notobject" THEN GameResult("raise", <<>>, <<>>, FALSE, 0, <<>>, EmptyMapping, ZeroBuckets)
      ELSE IF headers = <<>> \/ rows = <<>> THEN early("skip")
      ELSE IF opp.kind = "raise" THEN early("raise")
      ELSE IF opp.kind = "none" THEN early("skip")
      ELSE IF IsRaise(opp_abbr) THEN GameResult("raise", headers, rows, TRUE, opp_id, <<>>, EmptyMapping, ZeroBuckets)
      ELSE IF opp_abbr.s = <<>> THEN GameResult("skip", headers, rows, TRUE, opp_id, <<>>, EmptyMapping, ZeroBuckets)
      ELSE IF ~loop.ok THEN GameResult("raise", headers, rows, TRUE, opp_id, opp_abbr.s, depth_map, loop.gb)
      ELSE GameResult("add", headers, rows, TRUE, opp_id, opp_abbr.s, depth_map, loop.gb)

(* ------------------------------------------------------------------ *)
(* The inputs: command-line arguments and what the three providers     *)
(* (game log, boxscore, depth chart) may answer.                       *)
(* ------------------------------------------------------------------ *)
TargetAbbr == <<"M","I","L">>

\* --team, --season, --games, --metric: every --games around the clamp for one
\* metric, every metric for one game, and an unknown team
ArgsSet ==
  {[team |-> <<"m","i","l">>, season |-> 2025, games |-> g, metric |-> "pts"] : g \in {-1, 0, 1, 2, 500}}
  \cup {[team |-> TargetAbbr, season |-> 2000, games |-> 1, metric |-> mt] : mt \in Metrics}
  \cup {[team |-> <<"X","Y","Z">>, season |-> 2025, games |-> 20, metric |-> "pts"]}

\* dfl['Game_ID'] for a log of n games
GameLogOf(n) == [i \in 1..n |-> T(<<"0","0","2">> \o Digits(i))]

FullHeaders ==
  <<T(HdrTeamId), T(HdrTeamAbbr), T(HdrPlayer), T(HdrStartPos), T(HdrPTS),
    T(HdrREB), T(HdrAST), T(HdrFG3M), T(HdrSTL), T(HdrBLK)>>

MIL == TeamIdOfAbbr(TargetAbbr)
BOS == TeamIdOfAbbr(<<"B","O","S">>)
CHI == TeamIdOfAbbr(<<"C","H","I">>)

Row(tid, abbr, name, pos, pts, reb, ast, fg3m, stl, blk) ==
  <<tid, abbr, T(name), pos, pts, I(reb), I(ast), I(fg3m), I(stl), I(blk)>>

\* Rows in the column order of FullHeaders: a row of the target team, three
\* of the opponent (a guard with a suffixed name, a forward with a lower-case
\* starting position, a bench player without points), a row of an unlisted
\* team without abbreviation, a row whose team id is null, a row whose points
\* cell is text, and a row of a third team.
Players ==
  { Row(I(MIL), T(TargetAbbr), <<"T","y"," ","R","o">>, T(<<"G">>), I(9), 2, 6, 1, 1, 1),
    Row(I(BOS), T(<<"B","O","S">>), <<"A","l"," ","B","o"," ","J","r",".">>, T(<<"G">>), I(7), 3, 5, 2, 1, 1),
    Row(I(BOS), T(<<"B","O","S">>), <<"C","y"," ","D","i">>, T(<<"f">>), I(4), 8, 1, 0, 0, 2),
    Row(I(BOS), T(<<"B","O","S">>), <<"E","d"," ","F","y">>, None, I(0), 7, 0, 0, 0, 0),
    Row(I(5), None, <<"G","i"," ","H","o">>, T(<<"C">>), I(3), 1, 1, 0, 0, 0),
    Row(None, T(<<"B","O","S">>), <<"I","v"," ","J","o">>, T(<<"G">>), I(2), 1, 1, 0, 0, 0),
    Row(I(BOS), T(<<"B","O","S">>), <<"K","y"," ","L","o">>, T(<<"C">>), T(<<"x">>), 1, 1, 0, 0, 0),
    Row(I(CHI), T(<<"C","H","I">>), <<"M","o"," ","N","y">>, T(<<"F">>), I(5), 1, 1, 1, 1, 0) }

TargetRow == CHOOSE p \in Players : p[1] = I(MIL)

GuardRow == CHOOSE p \in Players : p[1] = I(BOS) /\ p[4] = T(<<"G">>)

ForwardRow == CHOOSE p \in Players : p[1] = I(BOS) /\ p[4] = T(<<"f">>)

\* the row lists of the boxscores: every single row, and every row after the
\* target team's row or after the opponent's guard
RowLists == {<<p>> : p \in Players} \cup {<<p, q>> : p \in {TargetRow, GuardRow}, q \in Players}

\* a list without its j-th element (j = 0: the list itself)
DropCol(s, j) == IF j = 0 THEN s ELSE SubSeq(s, 1, j - 1) \o SubSeq(s, j + 1, Len(s))

\* the columns a boxscore may lack: none, TEAM_ID, TEAM_ABBREVIATION, PTS, BLK
DroppedColumns == {0, 1, 2, 5, 10}

\* the row lists given to the boxscores with unusual headers
VariantRows == {<<TargetRow, GuardRow>>, <<GuardRow, ForwardRow>>}

RSet(name, headers, rows) == [name |-> T(name), headers |-> headers, rowSet |-> rows]

BsOk(rs) == [kind |-> "ok", resultSets |-> rs]

PlayerStats == <<"P","l","a","y","e","r","S","t","a","t","s">>

TeamStats == <<"T","e","a","m","S","t","a","t","s">>

Boxscores ==
  { [kind |-> "error", resultSets |-> <<>>],
    [kind |-> "notobject", resultSets |-> <<>>],
    BsOk(<<>>),
    BsOk(<<RSet(PlayerStats, FullHeaders, <<>>)>>) }
  \cup {BsOk(<<RSet(PlayerStats, FullHeaders, rows)>>) : rows \in RowLists}
  \cup {BsOk(<<RSet(PlayerStats, DropCol(FullHeaders, j),
                   [i \in 1..Len(rows) |-> DropCol(rows[i], j)])>>) :
          j \in DroppedColumns, rows \in VariantRows}
  \cup {BsOk(<<RSet(TeamStats, <<T(HdrTeamId)>>, <<<<I(MIL)>>>>),
              RSet(PlayerStats, [i \in 1..Len(FullHeaders) |-> T(Lower(FullHeaders[i].s))], rows)>>) :
          rows \in VariantRows}
  \cup {BsOk(<<RSet(TeamStats, FullHeaders, rows)>>) : rows \in VariantRows}

Entry(t, name) == [t |-> t, name |-> name]

Chart(pg, sg, sf, pf, c) == [kind |-> "ok", dc |-> [k \in Buckets |->
  CASE k = "PG" -> pg [] k = "SG" -> sg [] k = "SF" -> sf [] k = "PF" -> pf [] OTHER -> c]]

\* The depth-chart answers: the five failures, a chart that lists the guard
\* as SG and the forward as C, a chart that lists the guard twice (PG, then
\* SF) beside entries without a name, and a chart with a numeric name.
RosterResponses ==
  {[kind |-> k, dc |-> [b \in Buckets |-> <<>>]] :
      k \in {"error", "status", "badjson", "notobject", "nochart"}}
  \cup { Chart(<<>>, <<Entry("str", T(<<"A","L"," ","B","O">>))>>, <<>>, <<>>,
               <<Entry("dict", T(<<"C","y"," ","D","i">>))>>),
         Chart(<<Entry("str", T(<<"A","l"," ","B","o"," ","J","r">>))>>, <<>>,
               <<Entry("dict", T(<<"a","l"," "," ","b","o"," ","i","i","i">>))>>, <<Entry("other", None)>>,
               <<Entry("dict", None)>>),
         Chart(<<Entry("str", T(<<"A","l"," ","B","o">>))>>, <<Entry("dict", I(7))>>, <<>>, <<>>, <<>>) }

(* ------------------------------------------------------------------ *)
(* The program state.                                                  *)
(* ------------------------------------------------------------------ *)
VARIABLES
  args,          \* the parsed command line
  pc,            \* position in main / compute_for_season
  site,          \* which call of compute_for_season is running (1: line 208, 2: line 212)
  exc,           \* the exception that ended the run, "" if none
  out,           \* the lines printed to stdout
  team, team_id, season_label, processed, totals, per_game,    \* locals of main
  ret1, ret2,    \* what the first and the second call returned
  start_year, s_label, gids, gi, totals_l, processed_l,        \* locals of compute_for_season
  game,          \* what the last iteration of the game loop left behind
  calls,         \* history: the start years compute_for_season was invoked with
  log,           \* history: the game log the running call received
  visited,       \* history: the game ids the running call has fetched a boxscore for
  identified,    \* history: games of the running call in which an opponent row was found
  eligible,      \* history: those of them whose opponent abbreviation was not empty
  eligibleSum,   \* history: the bucket-wise sum of the deltas of the eligible games
  probe          \* the input and output of one bucket assignment (SpecAssign only)

vars ==
  <<args, pc, site, exc, out, team, team_id, season_label, processed, totals, per_game,
    ret1, ret2, start_year, s_label, gids, gi, totals_l, processed_l, game,
    calls, log, visited, identified, eligible, eligibleSum, probe>>

mainVars == <<team, team_id, season_label, processed, totals, per_game>>

callVars == <<start_year, s_label, gids, gi, totals_l, processed_l>>

histVars == <<log, visited, identified, eligible, eligibleSum>>

RECURSIVE GCD(_, _)
GCD(a, b) == IF b = 0 THEN a ELSE GCD(b, a % b)

\* 0.0
ZeroAvg == [num |-> 0, den |-> 1]

\* t / p as a fraction in lowest terms; den = 0 marks ZeroDivisionError
Divide(t, p) ==
  IF p = 0 THEN [num |-> t, den |-> 0]
  ELSE [num |-> t \div GCD(t, p), den |-> p \div GCD(t, p)]

\* PerGame without the guard on processed_l
PerGameUnguarded(tl, pl) == [k \in Buckets |-> Divide(tl[k], pl)]

\* per_game_l = {k: (totals_l[k] / processed_l) if processed_l else 0.0 ...}
PerGame(tl, pl) == [k \in Buckets |-> IF pl # 0 THEN Divide(tl[k], pl) ELSE ZeroAvg]

\* max(1, min(args.games, 50))
ClampGames(g) ==
  LET m == IF g < 50 THEN g ELSE 50
  IN  IF m > 1 THEN m ELSE 1

\* list[:n] for n >= 0
Slice(list, n) == SubSeq(list, 1, IF n < Len(list) THEN n ELSE Len(list))

\* AccumulateTotals with = for +=
AccumulateOverwrite(tl, gb) == [k \in Buckets |-> gb[k]]

\* totals_l[k] += game_buckets[k] for every bucket
AccumulateTotals(tl, gb) == [k \in Buckets |-> tl[k] + gb[k]]

\* NeedsFallback with the test dropped: the prior season is always tried
NeedsFallbackAlways(p) == p >= 0

\* if processed == 0: the prior season is tried
NeedsFallback(p) == p = 0

\* AdoptsFallback with >= for >
AdoptsFallbackAlways(p2) == p2 >= 0

\* if processed2 > 0: the prior season's result replaces the first one
AdoptsFallback(p2) == p2 > 0

NoRet == [label |-> <<>>, processed |-> 0, totals |-> ZeroBuckets, per_game |-> [k \in Buckets |-> ZeroAvg]]

NoGame == GameResult("none", <<>>, <<>>, FALSE, 0, <<>>, EmptyMapping, ZeroBuckets)

NoProbe == [done |-> FALSE, name |-> None, pos |-> None, ast |-> 0, reb |-> 0, blk |-> 0,
            resp |-> [kind |-> "error", dc |-> [b \in Buckets |-> <<>>]], bucket |-> ""]

\* the team ids the --team arguments resolve to
KnownTeamIds == {TeamIdOfAbbr(Upper(a.team)) : a \in ArgsSet} \ {0}

\* What an iteration of the game loop can leave behind, over every answer of
\* the boxscore provider and of the depth-chart provider, listed with the
\* target team and the metric it is computed for.
GameOutcomes ==
  {<<t, mt, ProcessGame(bs, resp, t, mt)>> :
      t \in KnownTeamIds, mt \in Metrics, bs \in Boxscores, resp \in RosterResponses}

\* what TeamGameLog(...).get_data_frames()[0]['Game_ID'] gives: an exception
\* (request failure, no frame, no such column) or the ids of 0..MaxLog games
GameLogAnswers ==
  {[ok |-> FALSE, ids |-> <<>>]} \cup {[ok |-> TRUE, ids |-> GameLogOf(n)] : n \in 0..MaxLog}

Init ==
  /\ args \in ArgsSet
  /\ pc = "main"
  /\ site = 0
  /\ exc = ""
  /\ out = <<>>
  /\ team = <<>>
  /\ team_id = 0
  /\ season_label = <<>>
  /\ processed = 0
  /\ totals = ZeroBuckets
  /\ per_game = [k \in Buckets |-> ZeroAvg]
  /\ ret1 = NoRet
  /\ ret2 = NoRet
  /\ start_year = 0
  /\ s_label = <<>>
  /\ gids = <<>>
  /\ gi = 1
  /\ totals_l = ZeroBuckets
  /\ processed_l = 0
  /\ game = NoGame
  /\ calls = <<>>
  /\ log = [ok |-> FALSE, ids |-> <<>>]
  /\ visited = <<>>
  /\ identified = 0
  /\ eligible = 0
  /\ eligibleSum = ZeroBuckets
  /\ probe = NoProbe

\* main, lines 101-107 and the call of line 208
MainStart ==
  /\ pc = "main"
  /\ team' = Upper(args.team)
  /\ team_id' = TeamIdOfAbbr(team')
  /\ IF team_id' = 0
       THEN /\ out' = Append(out, [success |-> FALSE, error |-> team'])
            /\ pc' = "done"
            /\ UNCHANGED <<season_label, site, start_year>>
       ELSE /\ season_label' = season_label_from_year(args.season)
            /\ site' = 1
            /\ start_year' = args.season
            /\ pc' = "call"
            /\ out' = out
  /\ UNCHANGED <<args, exc, processed, totals, per_game, ret1, ret2, s_label, gids, gi,
                 totals_l, processed_l, game, calls, histVars, probe>>

\* compute_for_season, lines 110-116
ComputeBegin ==
  /\ pc = "call"
  /\ calls' = Append(calls, start_year)
  /\ \E answer \in GameLogAnswers :
       /\ log' = answer
       /\ IF ~answer.ok
            THEN /\ pc' = "crashed"
                 /\ exc' = "game log"
                 /\ UNCHANGED <<s_label, gids>>
            ELSE /\ pc' = "loop"
                 /\ exc' = exc
                 /\ s_label' = season_label_from_year(start_year)
                 /\ gids' = Slice([i \in 1..Len(answer.ids) |-> PyStr(answer.ids[i]).s],
                                  ClampGames(args.games))
  /\ gi' = 1
  /\ totals_l' = ZeroBuckets
  /\ processed_l' = 0
  /\ game' = NoGame
  /\ visited' = <<>>
  /\ identified' = 0
  /\ eligible' = 0
  /\ eligibleSum' = ZeroBuckets
  /\ UNCHANGED <<args, site, out, mainVars, ret1, ret2, start_year, probe>>

\* compute_for_season, lines 118-202: the loop body for gids[gi]
GameStep ==
  /\ pc = "loop"
  /\ gi <= Len(gids)
  /\ \E o \in GameOutcomes :
       LET res == o[3]
           counts == res.identified /\ res.opp_abbr # <<>>
       IN  /\ o[1] = team_id
           /\ o[2] = args.metric
           /\ game' = res
           /\ identified' = identified + (IF res.identified THEN 1 ELSE 0)
           /\ eligible' = eligible + (IF counts THEN 1 ELSE 0)
           /\ eligibleSum' = IF counts THEN [k \in Buckets |-> eligibleSum[k] + res.game_buckets[k]]
                                       ELSE eligibleSum
           /\ IF res.kind = "raise"
                THEN /\ pc' = "crashed"
                     /\ exc' = "game"
                     /\ UNCHANGED <<gi, totals_l, processed_l>>
                ELSE /\ pc' = "loop"
                     /\ exc' = exc
                     /\ gi' = gi + 1
                     /\ totals_l' = IF res.kind = "add"
                                      THEN AccumulateTotals(totals_l, res.game_buckets)
                                      ELSE totals_l
                     /\ processed_l' = IF res.kind = "add" THEN processed_l + 1 ELSE processed_l
  /\ visited' = Append(visited, gids[gi])
  /\ UNCHANGED <<args, site, out, mainVars, ret1, ret2, start_year, s_label, gids, calls, log, probe>>

\* compute_for_season, lines 204-205, and the assignment of the returned tuple
ComputeReturn ==
  /\ pc = "loop"
  /\ gi > Len(gids)
  /\ LET pg == PerGame(totals_l, processed_l)
         ret == [label |-> s_label, processed |-> processed_l, totals |-> totals_l, per_game |-> pg]
     IN  IF \E k \in Buckets : pg[k].den = 0
           THEN /\ pc' = "crashed"
                /\ exc' = "ZeroDivisionError"
                /\ UNCHANGED <<ret1, ret2>>
           ELSE /\ exc' = exc
                /\ pc' = IF site = 1 THEN "ret1" ELSE "ret2"
                /\ ret1' = IF site = 1 THEN ret ELSE ret1
                /\ ret2' = IF site = 1 THEN ret2 ELSE ret
  /\ UNCHANGED <<args, site, out, mainVars, callVars, game, calls, histVars, probe>>

\* main, lines 208-212
AfterFirst ==
  /\ pc = "ret1"
  /\ processed' = ret1.processed
  /\ totals' = ret1.totals
  /\ per_game' = ret1.per_game
  /\ IF NeedsFallback(ret1.processed)
       THEN /\ site' = 2
            /\ start_year' = args.season - 1
            /\ pc' = "call"
       ELSE /\ pc' = "emit"
            /\ UNCHANGED <<site, start_year>>
  /\ UNCHANGED <<args, exc, out, team, team_id, season_label, ret1, ret2, s_label, gids, gi,
                 totals_l, processed_l, game, calls, histVars, probe>>

\* main, lines 212-217
AfterSecond ==
  /\ pc = "ret2"
  /\ IF AdoptsFallback(ret2.processed)
       THEN /\ season_label' = ret2.label
            /\ processed' = ret2.processed
            /\ totals' = ret2.totals
            /\ per_game' = ret2.per_game
       ELSE UNCHANGED <<season_label, processed, totals, per_game>>
  /\ pc' = "emit"
  /\ UNCHANGED <<args, site, exc, out, team, team_id, ret1, ret2, callVars, game, calls,
                 histVars, probe>>

\* main, lines 219-229
Emit ==
  /\ pc = "emit"
  /\ out' = Append(out, [success |-> TRUE, team |-> team, season |-> season_label,
                         metric |-> args.metric, sample_games |-> processed,
                         perGame |-> per_game, totals |-> totals])
  /\ pc' = "done"
  /\ UNCHANGED <<args, site, exc, mainVars, ret1, ret2, callVars, game, calls, histVars, probe>>

Next ==
  \/ MainStart
  \/ ComputeBegin
  \/ GameStep
  \/ ComputeReturn
  \/ AfterFirst
  \/ AfterSecond
  \/ Emit

Spec == Init /\ [][Next]_vars

(* ------------------------------------------------------------------ *)
(* One bucket assignment on its own: the row fields and the depth-chart *)
(* answer are drawn freely, and the assignment of lines 164-198 is      *)
(* applied to them.                                                     *)
(* ------------------------------------------------------------------ *)
ProbeInputs ==
  { [done |-> FALSE, name |-> nm, pos |-> ps, ast |-> a, reb |-> r, blk |-> b, resp |-> rp,
     bucket |-> ""] :
      nm \in {T(<<"A","l"," ","B","o"," ","J","r",".">>), T(<<"C","y"," ","D","i">>),
              T(<<"Z","e","d">>), None},
      ps \in {T(<<"G">>), T(<<"g">>), T(<<"F">>), T(<<"f">>), T(<<"C">>), T(<<"c">>),
              T(<<"G","-","F">>), T(<<>>), None},
      a \in {4, 5}, r \in {6, 7, 8}, b \in {1, 2}, rp \in RosterResponses }

InitAssign ==
  /\ args = CHOOSE a \in ArgsSet : a.games = 20
  /\ pc = "assign"
  /\ site = 0
  /\ exc = ""
  /\ out = <<>>
  /\ team = <<>>
  /\ team_id = 0
  /\ season_label = <<>>
  /\ processed = 0
  /\ totals = ZeroBuckets
  /\ per_game = [k \in Buckets |-> ZeroAvg]
  /\ ret1 = NoRet
  /\ ret2 = NoRet
  /\ start_year = 0
  /\ s_label = <<>>
  /\ gids = <<>>
  /\ gi = 1
  /\ totals_l = ZeroBuckets
  /\ processed_l = 0
  /\ game = NoGame
  /\ calls = <<>>
  /\ log = [ok |-> FALSE, ids |-> <<>>]
  /\ visited = <<>>
  /\ identified = 0
  /\ eligible = 0
  /\ eligibleSum = ZeroBuckets
  /\ probe \in ProbeInputs

\* lines 164-198 for one row whose metric value is not zero
Assign ==
  /\ pc = "assign"
  /\ ~probe.done
  /\ probe' = [probe EXCEPT
                 !.done = TRUE,
                 !.bucket = AssignBucket(PlayerName(probe.name), StartPos(probe.pos),
                                         probe.ast, probe.reb, probe.blk,
                                         fetch_depth_chart_buckets(probe.resp))]
  /\ UNCHANGED <<args, pc, site, exc, out, mainVars, ret1, ret2, callVars, game, calls, histVars>>

NextAssign == Assign

SpecAssign == InitAssign /\ [][NextAssign]_vars

(* ------------------------------------------------------------------ *)
(* The claims.                                                         *)
(* ------------------------------------------------------------------ *)
FiveBuckets == {"PG", "SG", "SF", "PF", "C"}

\* clamp(g, 1, 50), written from its definition
ClampRef(g) == IF g < 1 THEN 1 ELSE IF g > 50 THEN 50 ELSE g

\* the sum of a per-bucket record over the five buckets
BucketSum(gb) == gb["PG"] + gb["SG"] + gb["SF"] + gb["PF"] + gb["C"]

\* the position of the column called name in a header list, compared without
\* regard to case; 0 when the list has no such column
HeaderPos(headers, name) ==
  IF \E p \in 1..Len(headers) : Upper(headers[p].s) = name
    THEN CHOOSE p \in 1..Len(headers) :
           Upper(headers[p].s) = name /\ \A q \in 1..(p - 1) : Upper(headers[q].s) # name
    ELSE 0

\* the numeric field called name of a row: its cell when the column exists
\* and holds a number, zero otherwise
FieldNum(row, headers, name) ==
  LET p == HeaderPos(headers, name)
  IN  IF p = 0 THEN 0 ELSE IF row[p].k = "int" THEN row[p].n ELSE 0

MetricHeader(metric) ==
  CASE metric = "pts"  -> HdrPTS
    [] metric = "reb"  -> HdrREB
    [] metric = "ast"  -> HdrAST
    [] metric = "fg3m" -> HdrFG3M
    [] metric = "stl"  -> HdrSTL
    [] metric = "blk"  -> HdrBLK

\* the sum of the metric over the rows, from row i on, whose team is opp
RECURSIVE OpponentMetricSum(_, _, _, _, _)
OpponentMetricSum(rows, i, headers, opp, metric) ==
  IF i > Len(rows) THEN 0
  ELSE (IF FieldNum(rows[i], headers, HdrTeamId) = opp
          THEN FieldNum(rows[i], headers, MetricHeader(metric)) ELSE 0)
       + OpponentMetricSum(rows, i + 1, headers, opp, metric)

\* C1: for a known team no exception crosses the season-aggregation boundary,
\* whatever the game-log request, the boxscore requests and the roster lookups
\* answer: the run never ends in an uncaught exception.
C1_NoExceptionEscapes == pc # "crashed"

\* C2: an exception raised while one game's boxscore is fetched or parsed
\* (request failure, missing result set, unreadable team-id or stat cell) is
\* caught for that game: the loop goes on with the next game id.
C2_GameExceptionCaught == game.kind = "raise" => (pc = "loop" /\ exc = "")

\* C3: compute_for_season is invoked first for the requested start year, a
\* second time (for the year before) exactly when the first invocation
\* returned zero processed games, never a third time, and the second
\* invocation starts only after the first has returned.
C3_FallbackExactlyWhenFirstEmpty ==
  /\ Len(calls) <= 2
  /\ Len(calls) >= 1 => calls[1] = args.season
  /\ Len(calls) = 2 =>
       /\ calls[2] = args.season - 1
       /\ ret1.label # <<>>
       /\ ret1.processed = 0
  /\ (pc \in {"emit", "done"} /\ team_id # 0 /\ ret1.processed = 0) => Len(calls) = 2

\* C3 witness: a run that made the second invocation and ended
C3_Witness == Len(calls) = 2 /\ pc = "done" /\ ret1.processed = 0

\* C4: the emitted season label, sample_games, totals and perGame are the
\* prior-season attempt's exactly when the requested season processed no game
\* and the prior season processed some; otherwise they are the requested
\* season's under the requested label, all zero when both processed nothing.
C4_EmittedResult ==
  (pc = "done" /\ team_id # 0) =>
    LET o == out[Len(out)]
        adopted == ret1.processed = 0 /\ ret2.processed > 0
    IN  /\ o.success
        /\ IF adopted
             THEN /\ o.season = ret2.label
                  /\ o.sample_games = ret2.processed
                  /\ o.totals = ret2.totals
                  /\ o.perGame = ret2.per_game
                  /\ args.season = 2000 => o.season = <<"1","9","9","9","-","0","0">>
                  /\ args.season = 2025 => o.season = <<"2","0","2","4","-","2","5">>
             ELSE /\ o.season = ret1.label
                  /\ o.sample_games = ret1.processed
                  /\ o.totals = ret1.totals
                  /\ o.perGame = ret1.per_game
                  /\ args.season = 2000 => o.season = <<"2","0","0","0","-","0","1">>
                  /\ args.season = 2025 => o.season = <<"2","0","2","5","-","2","6">>
                  /\ ret1.processed = 0 =>
                       \A k \in FiveBuckets : o.totals[k] = 0 /\ o.perGame[k].num = 0

\* C4 witness: a run that emitted the prior season's result
C4_Witness ==
  /\ pc = "done"
  /\ ret1.processed = 0
  /\ ret2.processed > 0
  /\ out[Len(out)].sample_games = ret2.processed
  /\ BucketSum(out[Len(out)].totals) > 0

C6_DeltaIsOpponentMetricSum ==
  game.kind = "add" =>
    BucketSum(game.game_buckets)
      = OpponentMetricSum(game.rows, 1, game.headers, game.opp_id, args.metric)

\* the decision table of C7 on a starting-position label
TableOnLabel(isG, isF, isC, ast, reb, blk) ==
  IF isG THEN (IF ast >= 5 THEN "PG" ELSE "SG")
  ELSE IF isF THEN (IF reb >= 8 \/ blk >= 2 THEN "PF" ELSE "SF")
  ELSE IF isC THEN "C"
  ELSE (IF reb >= 7 THEN "PF" ELSE "C")

\* the starting-position label of the probed row as text (empty for null)
ProbeLabel == IF probe.pos.k = "str" THEN probe.pos.s ELSE <<>>

ProbeMapping == fetch_depth_chart_buckets(probe.resp)

ProbeKey == norm_name(IF probe.name.k = "str" THEN probe.name.s ELSE <<>>)

\* C7 as stated: the assignment returns one of the five buckets and is the
\* mapped bucket when the mapping contains the normalized name, else the
\* table on the label being equal to "G", "F", "C" or anything else.
C7_TableOnExactLabel ==
  probe.done =>
    /\ probe.bucket \in FiveBuckets
    /\ probe.bucket =
         IF ProbeKey \in DOMAIN ProbeMapping THEN ProbeMapping[ProbeKey]
         ELSE TableOnLabel(ProbeLabel = <<"G">>, ProbeLabel = <<"F">>, ProbeLabel = <<"C">>,
                           probe.ast, probe.reb, probe.blk)

\* C7 as amended: the same table with the label compared without regard to
\* case ("g" as "G", "f" as "F", "c" as "C").
C7_TableOnUpperCasedLabel ==
  probe.done =>
    /\ probe.bucket \in FiveBuckets
    /\ probe.bucket =
         IF ProbeKey \in DOMAIN ProbeMapping THEN ProbeMapping[ProbeKey]
         ELSE TableOnLabel(ProbeLabel \in {<<"G">>, <<"g">>}, ProbeLabel \in {<<"F">>, <<"f">>},
                           ProbeLabel \in {<<"C">>, <<"c">>},
                           probe.ast, probe.reb, probe.blk)

\* C7 witness: a row labelled "g" with five assists and no mapping entry,
\* assigned PG
C7_Witness ==
  /\ probe.done
  /\ probe.pos = T(<<"g">>)
  /\ probe.ast = 5
  /\ ProbeKey \notin DOMAIN ProbeMapping
  /\ probe.bucket = "PG"

\* C8: when the header list lacks a column (idx gives -1), every row's access
\* to that field gives the default: zero for ast, reb, blk and the metric
\* value, the empty text for player name, starting position and team
\* abbreviation.
C8_MissingColumnDefaults ==
  LET ix == ColumnIndices(game.headers)
      num(r, i) == i = -1 => StatCell(r, i) = I(0)
      txt(r, i) == i = -1 => PyStr(PyOr(PyIndex(r, i), T(<<>>))) = T(<<>>)
  IN  (game.headers # <<>>) =>
        \A n \in 1..Len(game.rows) :
          LET r == game.rows[n]
          IN  /\ num(r, MetricIndex(args.metric, ix))
              /\ num(r, ix.iAST)
              /\ num(r, ix.iREB)
              /\ num(r, ix.iBLK)
              /\ txt(r, ix.iPlayer)
              /\ txt(r, ix.iStartPos)
              /\ txt(r, ix.iTeamAbbr)

\* C9: a season attempt visits exactly the first
\* min(len(gameLog), clamp(maxGames, 1, 50)) game ids of the log, in order.
C9_VisitsClampedPrefix ==
  (log.ok /\ pc \in {"ret1", "ret2", "emit", "done", "crashed"}) =>
    LET n == IF Len(log.ids) < ClampRef(args.games) THEN Len(log.ids) ELSE ClampRef(args.games)
    IN  visited = [i \in 1..n |-> log.ids[i].s]

\* C10: the result of every season attempt has totals and averages keyed by
\* exactly PG, SG, SF, PF, C; each average is total / processedGames when
\* processedGames > 0 and zero when it is 0; no division by zero happens.
C10_ResultShape ==
  /\ exc # "ZeroDivisionError"
  /\ DOMAIN totals_l = FiveBuckets
  /\ \A r \in {ret1, ret2} :
       /\ DOMAIN r.totals = FiveBuckets
       /\ DOMAIN r.per_game = FiveBuckets
       /\ \A k \in FiveBuckets :
            IF r.processed > 0
              THEN /\ r.per_game[k].den > 0
                   /\ r.per_game[k].num * r.processed = r.totals[k] * r.per_game[k].den
              ELSE r.per_game[k].num = 0 /\ r.per_game[k].den = 1

\* C10 witness: an attempt that returned two processed games and an average
\* that is not a whole number
C10_Witness ==
  /\ ret1.processed = 2
  /\ \E k \in FiveBuckets : ret1.per_game[k].den = 2

====
